---- MODULE Spec2Model ----
(***************************************************************************)
(* Model of positionGoalActionServer.py: the execute callback, which the   *)
(* SimpleActionServer runs on its one execute thread, the preempt callback *)
(* that the server invokes from the goal / cancel subscriber thread while  *)
(* it holds its lock, and the odometry callback.  The statements of        *)
(* execute and preempt_cb interleave freely, one Python statement a step;  *)
(* set_succeeded, set_aborted and accept_new_goal take the server's lock   *)
(* and so wait for a callback in progress.  Under Spec a pose message is   *)
(* cached in one step; PoseSpec runs onOdometry one assignment a step      *)
(* against the reads of a tick.  SignSpec runs the sign resolution of      *)
(* lines 105-111 on the results of the double arithmetic, and TickSpec     *)
(* runs execute alone with the pose at rest around the tolerance.          *)
(*                                                                         *)
(* Units.  Lengths are in tenths of a metre, angles in hundredths of a     *)
(* radian, quaternion components in units of 1/sqrt(2) (so that a yaw of   *)
(* +-90 degrees has integer components).  The inputs are chosen so that    *)
(* every square root and every cosine the code takes is exact in these     *)
(* units.                                                                  *)
(*                                                                         *)
(* sink, calls, ticks, late_tick, exit_via, nonzero_pub, succ_zero,        *)
(* shut_running, handover and in_wait record what has happened; no step of *)
(* the program reads them.                                                 *)
(***************************************************************************)
EXTENDS Integers, Sequences, FiniteSets, TLC

\* ------------------------------------------------------------------ bounds
MaxGoals == 2

\* largest offset of the position from the goal along an axis, in tenths of a
\* metre, where the distance is compared with the tolerance
MaxOffset == 2

\* ------------------------------------- parameters (defaults of lines 47-49)
max_linear_velocity == 20
max_angular_velocity == 100
max_distance_error == 1

\* ------------------------------------------------------------------ inputs
\* destinations a goal message may carry
Goals == { <<0, 0>>, <<0, 20>> }

\* pose messages: position and orientation quaternion (x, y, z, w)
PoseMsgs ==
  { [pos |-> <<15, 0>>,  q |-> <<0, 0, 1, 1>>],
    [pos |-> <<0, 20>>,  q |-> <<0, 0, -1, 1>>],
    [pos |-> <<0, 0>>,   q |-> <<0, 0, 1, 1>>] }

GoalIds == 1..MaxGoals

\* ------------------------------------------------------ class vector (pure)
Dot(a, b) == a[1] * b[1] + a[2] * b[2]

\* vector.__sub__
Sub(a, b) == << a[1] - b[1], a[2] - b[2] >>

\* math.sqrt on the perfect squares the inputs produce
Sqrt(n) == CHOOSE r \in 0..60 : r * r = n

\* vector.length
Length(v) == Sqrt(Dot(v, v))

\* math.acos of c25/25, in hundredths of a radian
Acos25(c25) ==
  CASE c25 =  25 -> 0
    [] c25 =  20 -> 64
    [] c25 =  15 -> 93
    [] c25 =   7 -> 129
    [] c25 =   0 -> 157
    [] c25 =  -7 -> 185
    [] c25 = -15 -> 221
    [] c25 = -20 -> 250
    [] c25 = -25 -> 314

\* vector.angle: acos of the cosine, clamped to [-1, 1]
Angle(a, b) ==
  LET tmp25 == (25 * Dot(a, b)) \div (Length(a) * Length(b))
  IN  IF tmp25 > 25 THEN Acos25(25)
      ELSE IF tmp25 < -25 THEN Acos25(-25)
      ELSE Acos25(tmp25)

\* 5*math.cos(rad) and 5*math.sin(rad) for the angles Acos25 returns to execute
Cos5(rad) ==
  CASE rad = 0 -> 5 [] rad = 64 -> 4 [] rad = 93 -> 3 [] rad = 157 -> 0
    [] rad = 221 -> -3 [] rad = 250 -> -4 [] rad = 314 -> -5

Sin5(rad) ==
  CASE rad = 0 -> 0 [] rad = 64 -> 3 [] rad = 93 -> 4 [] rad = 157 -> 5
    [] rad = 221 -> 4 [] rad = 250 -> 3 [] rad = 314 -> 0

\* vector.rotate; the result is scaled by 5 (angle() is scale invariant)
Rotate(v, rad) ==
  << Cos5(rad) * v[1] - Sin5(rad) * v[2], Sin5(rad) * v[1] + Cos5(rad) * v[2] >>

\* lines 100-102: roll = atan2(2(q0 q1 + q2 q3), 1 - 2(q1^2 + q2^2)) and
\* head = (cos roll, sin roll).  With components in units of 1/sqrt(2) the two
\* arguments are s = q0 q1 + q2 q3 and c = 1 - (q1^2 + q2^2); atan2(0, 0) = 0.
HeadVector(q) ==
  LET s == q[1] * q[2] + q[3] * q[4]
      c == 1 - (q[2] * q[2] + q[3] * q[3])
  IN  CASE s = 0 /\ c >= 0 -> << 1, 0 >>
        [] s = 0 /\ c < 0  -> << -1, 0 >>
        [] s > 0 /\ c = 0  -> << 0, 1 >>
        [] s < 0 /\ c = 0  -> << 0, -1 >>

\* lines 105-111: unsigned angle, then the sign test by rotation
AngleError(q, path) ==
  LET head == HeadVector(q)
      a    == Angle(head, path)
      t1   == Rotate(head, a)
  IN  IF Angle(path, t1) # 0 THEN -a ELSE a

\* a lower clamp that lets a negative value through
ClampLo_Unclamped(x, m) == x

\* lines 118-119 and 122-123
ClampHi(x, m) == IF x > m THEN m ELSE x

\* lines 120-121 and 124-125
ClampLo(x, m) == IF x < -m THEN -m ELSE x

\* ------------------------------------------------------------------- state
VARIABLES
  pc,            \* position of the execute thread (executeLoop and execute)
  cb,            \* position of the goal / cancel subscriber thread
  od,            \* position of the odometry subscriber thread and its message
  shutdown,      \* rospy.is_shutdown()
  destination, position, quaternion, distance_error, angle_error, twist,
  path,          \* local of execute
  ret,           \* what execute returned last
  \* SimpleActionServer
  new_goal, preempt_request, new_goal_preempt_request,
  current_goal, next_goal, status, goal_msg,
  sink,          \* the command handed to the Command Sink by the last step
  calls,         \* calls of set_succeeded / set_preempted / set_aborted
                 \* made for the goal in execution
  \* history of the execution in progress
  ticks, late_tick, exit_via, nonzero_pub, succ_zero, shut_running,
  handover, in_wait

server == << new_goal, preempt_request, new_goal_preempt_request,
             current_goal, next_goal, status, goal_msg >>
pose == << position, quaternion >>
hist == << ticks, late_tick, exit_via, nonzero_pub, succ_zero, shut_running >>
vars == << pc, cb, od, shutdown, destination, position, quaternion,
             distance_error, angle_error, twist, path, ret, new_goal,
             preempt_request, new_goal_preempt_request, current_goal,
             next_goal, status, goal_msg, sink, calls, ticks, late_tick, exit_via,
             nonzero_pub, succ_zero, shut_running, handover, in_wait >>

NoPub == [by |-> "none", linear |-> 0, angular |-> 0, goal |-> 0, pr |-> FALSE]
NoCall == [succeeded |-> 0, preempted |-> 0, aborted |-> 0]
NoMsg == [pc |-> "idle", pos |-> <<0, 0>>, q |-> <<0, 0, 0, 0>>]

\* lines 57-65 and the SimpleActionServer constructor
Init ==
  /\ pc = "wait" /\ cb = "idle" /\ od = NoMsg
  /\ shutdown = FALSE
  /\ destination = <<0, 0>> /\ position = <<0, 0>>
  /\ quaternion = <<0, 0, 0, 0>>
  /\ distance_error = 0 /\ angle_error = 0
  /\ twist = [linear |-> 0, angular |-> 0]
  /\ path = <<0, 0>> /\ ret = "none"
  /\ new_goal = FALSE /\ preempt_request = FALSE
  /\ new_goal_preempt_request = FALSE
  /\ current_goal = 0 /\ next_goal = 0
  /\ status = [g \in GoalIds |-> "NONE"]
  /\ goal_msg = [g \in GoalIds |-> <<0, 0>>]
  /\ sink = NoPub
  /\ calls = NoCall
  /\ ticks = 0 /\ late_tick = FALSE /\ exit_via = "none" /\ nonzero_pub = FALSE
  /\ succ_zero = FALSE /\ shut_running = FALSE
  /\ handover = "none" /\ in_wait = "no"

\* -------------------------------------------------- goal transport (library)
\* SimpleActionServer.is_active
is_active == current_goal # 0 /\ status[current_goal] \in {"ACTIVE", "PREEMPTING"}

\* twist_pub.publish(self.twist): sink holds the command, who published it,
\* the goal in execution and whether its preemption was requested by then;
\* every step that publishes nothing clears sink
Publish(who) ==
  /\ sink' = [by |-> who, linear |-> twist.linear, angular |-> twist.angular,
                  goal |-> current_goal, pr |-> preempt_request]
  /\ nonzero_pub' = (nonzero_pub \/ twist.linear # 0 \/ twist.angular # 0)

IsZero(m) == m.linear = 0 /\ m.angular = 0
\* in_wait follows a preemption that arrived while the loop was in its wait
\* (line 133): "waiting" until the execute thread takes a step, then "left"
Left(w) == IF w = "waiting" THEN "left" ELSE w

\* a zero command counts as the stop of a handover that waits for one
StopSeen(h) ==
  CASE h = "waiting"     -> "stopped"
    [] h = "new_waiting" -> "new_stopped"
    [] OTHER             -> h

\* the first command of the new goal's execution closes the handover
FirstCommand(h) ==
  CASE h = "new_stopped" -> "ok"
    [] h \in {"new_waiting", "new_unmarked"} -> "bad"
    [] OTHER -> h

\* ServerGoalHandle.set_canceled, set_succeeded, set_aborted: a terminal
\* status is taken only from an active status, otherwise the call is refused
Terminal(st, to) == IF st \in {"ACTIVE", "PREEMPTING"} THEN to ELSE st

\* ------------------------------------------ goal / cancel subscriber thread
\* A goal message arrives: ActionServer.internal_goal_callback and the first
\* half of SimpleActionServer.internal_goal_callback (both under the lock).
GoalArrives(xy) ==
  /\ cb = "idle"
  /\ \E g \in GoalIds :
       /\ status[g] = "NONE"
       /\ \A h \in GoalIds : h < g => status[h] # "NONE"
       /\ status' = [h \in GoalIds |->
                       IF h = g THEN "PENDING"
                       ELSE IF h = next_goal /\ next_goal # current_goal
                            THEN "RECALLED"
                       ELSE status[h]]
       /\ next_goal' = g
       /\ goal_msg' = [goal_msg EXCEPT ![g] = xy]
  /\ new_goal' = TRUE
  /\ new_goal_preempt_request' = FALSE
  /\ cb' = "G2"
  /\ sink' = NoPub
  /\ UNCHANGED << od, pc, shutdown, destination, pose, distance_error,
                  angle_error, twist, path, ret, preempt_request, current_goal,
                  calls, hist, handover, in_wait >>

\* second half of internal_goal_callback: the running goal is preempted
GoalPreempts ==
  /\ cb = "G2"
  /\ IF is_active
       THEN /\ preempt_request' = TRUE
            /\ cb' = "L77"
            /\ in_wait' = IF pc = "L133" THEN "waiting" ELSE "no"
            /\ handover' = IF handover = "bad" THEN "bad" ELSE "waiting"
       ELSE /\ cb' = "idle"
            /\ UNCHANGED << preempt_request, in_wait, handover >>
  /\ sink' = NoPub
  /\ UNCHANGED << od, pc, shutdown, destination, pose, distance_error,
                  angle_error, twist, path, ret, new_goal,
                  new_goal_preempt_request, current_goal, next_goal, status,
                  goal_msg, calls, hist >>

\* A cancel message for goal g arrives: ActionServer.internal_cancel_callback
\* (set_cancel_requested) and SimpleActionServer.internal_preempt_callback.
CancelArrives(g) ==
  /\ cb = "idle"
  /\ status[g] \in {"PENDING", "ACTIVE"}
  /\ status' = [status EXCEPT ![g] = IF @ = "PENDING" THEN "RECALLING"
                                     ELSE "PREEMPTING"]
  /\ IF g = current_goal
       THEN /\ preempt_request' = TRUE
            /\ cb' = "L77"
            /\ in_wait' = IF pc = "L133" THEN "waiting" ELSE "no"
            /\ UNCHANGED new_goal_preempt_request
       ELSE /\ new_goal_preempt_request' = (new_goal_preempt_request \/ g = next_goal)
            /\ UNCHANGED << preempt_request, cb, in_wait >>
  /\ sink' = NoPub
  /\ UNCHANGED << od, pc, shutdown, destination, pose, distance_error,
                  angle_error, twist, path, ret, new_goal, current_goal,
                  next_goal, goal_msg, calls, hist, handover >>

\* preempt_cb, lines 76-77
preempt_cb_L77 ==
  /\ cb = "L77"
  /\ twist' = [twist EXCEPT !.linear = 0]
  /\ cb' = "L78"
  /\ sink' = NoPub
  /\ UNCHANGED << od, pc, shutdown, destination, pose, distance_error,
                  angle_error, path, ret, server, calls, hist,
                  handover, in_wait >>

\* preempt_cb, line 78
preempt_cb_L78 ==
  /\ cb = "L78"
  /\ twist' = [twist EXCEPT !.angular = 0]
  /\ cb' = "L79"
  /\ sink' = NoPub
  /\ UNCHANGED << od, pc, shutdown, destination, pose, distance_error,
                  angle_error, path, ret, server, calls, hist,
                  handover, in_wait >>

\* preempt_cb, line 79
preempt_cb_L79 ==
  /\ cb = "L79"
  /\ Publish("preempt_cb")
  /\ handover' = IF IsZero(twist) THEN StopSeen(handover) ELSE handover
  /\ cb' = "L81"
  /\ UNCHANGED << od, pc, shutdown, destination, pose, distance_error,
                  angle_error, twist, path, ret, server, calls, ticks,
                  late_tick, exit_via, succ_zero, shut_running, in_wait >>

\* preempt_cb, line 81: set_preempted, then the lock is released
preempt_cb_L81 ==
  /\ cb = "L81"
  /\ status' = [status EXCEPT ![current_goal] = Terminal(@, "PREEMPTED")]
  /\ calls' = [calls EXCEPT !.preempted = @ + 1]
  /\ cb' = "idle"
  /\ in_wait' = "no"
  /\ sink' = NoPub
  /\ UNCHANGED << od, pc, shutdown, destination, pose, distance_error,
                  angle_error, twist, path, ret, new_goal, preempt_request,
                  new_goal_preempt_request, current_goal, next_goal, goal_msg,
                  hist, handover >>

\* ------------------------------------------------ odometry subscriber thread
\* a pose handler that also stops the robot
onOdometry_ResetsTwist(m) ==
  /\ quaternion' = m.q
  /\ position' = m.pos
  /\ twist' = [linear |-> 0, angular |-> 0]
  /\ sink' = NoPub
  /\ UNCHANGED << od, pc, cb, shutdown, destination, distance_error, angle_error,
                  path, ret, server, calls, hist, handover, in_wait >>

\* onOdometry, lines 154-161: the cached orientation and position are
\* overwritten with the message's
onOdometry(m) ==
  /\ quaternion' = m.q
  /\ position' = m.pos
  /\ sink' = NoPub
  /\ UNCHANGED << od, pc, cb, shutdown, destination, distance_error, angle_error,
                  twist, path, ret, server, calls, hist, handover, in_wait >>

\* --------------------------------------------------------- execute thread
\* positions inside the while loop of execute
LoopPcs == {"L88", "L90", "L94", "L98", "L100", "L114", "L115", "L118", "L120",
            "L122", "L124", "L128", "L129", "L133", "L136", "L140", "L141",
            "L142"}

\* a publication by execute: the first command of a new goal closes the
\* handover, a zero command of the old goal is a stop
ExecPublish(h) ==
  IF h \in {"new_waiting", "new_stopped", "new_unmarked"} THEN FirstCommand(h)
  ELSE IF IsZero(twist) THEN StopSeen(h) ELSE h

\* executeLoop: a new goal is available; accept_new_goal (under the lock) and
\* the call of execute
accept_new_goal ==
  /\ pc = "wait" /\ ~shutdown /\ new_goal /\ cb = "idle"
  /\ current_goal' = next_goal
  /\ new_goal' = FALSE
  /\ preempt_request' = new_goal_preempt_request
  /\ new_goal_preempt_request' = FALSE
  /\ status' = [status EXCEPT ![next_goal] = IF @ = "RECALLING" THEN "PREEMPTING"
                                             ELSE "ACTIVE"]
  /\ pc' = "L85" /\ ret' = "none"
  /\ ticks' = 0 /\ late_tick' = FALSE /\ exit_via' = "none" /\ nonzero_pub' = FALSE /\ succ_zero' = FALSE
  /\ handover' = CASE handover = "waiting" -> "new_waiting"
                   [] handover = "stopped" ->
                        IF status[current_goal] = "PREEMPTED" THEN "new_stopped"
                        ELSE "new_unmarked"
                   [] OTHER -> handover
  /\ in_wait' = Left(in_wait)
  /\ calls' = NoCall
  /\ sink' = NoPub
  /\ UNCHANGED << od, cb, shutdown, destination, pose, distance_error,
                  angle_error, twist, path, next_goal, goal_msg,
                  shut_running >>

\* executeLoop ends on shutdown
executeLoop_exit ==
  /\ pc = "wait" /\ shutdown
  /\ pc' = "dead"
  /\ sink' = NoPub
  /\ UNCHANGED << od, cb, shutdown, destination, pose, distance_error,
                  angle_error, twist, path, ret, server, calls, hist,
                  handover, in_wait >>

\* lines 85-86
execute_L85 ==
  /\ pc = "L85"
  /\ destination' = goal_msg[current_goal]
  /\ pc' = "L88" /\ in_wait' = Left(in_wait)
  /\ sink' = NoPub
  /\ UNCHANGED << od, cb, shutdown, pose, distance_error, angle_error, twist,
                  path, ret, server, calls, hist, handover >>

\* line 88: while not rospy.is_shutdown()
execute_L88 ==
  /\ pc = "L88"
  /\ IF shutdown THEN pc' = "L145" /\ exit_via' = "shutdown"
                 ELSE pc' = "L90" /\ UNCHANGED exit_via
  /\ late_tick' = (calls.preempted > 0)
  /\ in_wait' = Left(in_wait)
  /\ sink' = NoPub
  /\ UNCHANGED << od, cb, shutdown, destination, pose, distance_error,
                  angle_error, twist, path, ret, server, calls,
                  ticks, nonzero_pub, succ_zero, shut_running, handover >>

\* lines 90-91: break when a new goal is available
execute_L90 ==
  /\ pc = "L90"
  /\ IF new_goal THEN pc' = "L145" /\ exit_via' = "newgoal" /\ UNCHANGED ticks
                 ELSE /\ pc' = "L94" /\ UNCHANGED exit_via
                      /\ ticks' = IF ticks < 2 THEN ticks + 1 ELSE ticks
  /\ in_wait' = Left(in_wait)
  /\ sink' = NoPub
  /\ UNCHANGED << od, cb, shutdown, destination, pose, distance_error,
                  angle_error, twist, path, ret, server, calls, late_tick,
                  nonzero_pub, succ_zero, shut_running, handover >>

\* lines 94-95
execute_L94 ==
  /\ pc = "L94"
  /\ path' = Sub(destination, position)
  /\ distance_error' = Length(path')
  /\ pc' = "L98" /\ in_wait' = Left(in_wait)
  /\ sink' = NoPub
  /\ UNCHANGED << od, cb, shutdown, destination, pose, angle_error, twist,
                  ret, server, calls, hist, handover >>

\* a test of line 98 that takes a distance equal to the tolerance for unreached
execute_L98_AtLeast ==
  /\ pc = "L98"
  /\ pc' = IF distance_error >= max_distance_error THEN "L100" ELSE "L136"
  /\ in_wait' = Left(in_wait)
  /\ sink' = NoPub
  /\ UNCHANGED << od, cb, shutdown, destination, pose, distance_error,
                  angle_error, twist, path, ret, server, calls, hist,
                  handover >>

\* line 98
execute_L98 ==
  /\ pc = "L98"
  /\ pc' = IF distance_error > max_distance_error THEN "L100" ELSE "L136"
  /\ in_wait' = Left(in_wait)
  /\ sink' = NoPub
  /\ UNCHANGED << od, cb, shutdown, destination, pose, distance_error,
                  angle_error, twist, path, ret, server, calls, hist,
                  handover >>

\* lines 100-111
execute_L100 ==
  /\ pc = "L100"
  /\ angle_error' = AngleError(quaternion, path)
  /\ pc' = "L114" /\ in_wait' = Left(in_wait)
  /\ sink' = NoPub
  /\ UNCHANGED << od, cb, shutdown, destination, pose, distance_error, twist,
                  path, ret, server, calls, hist, handover >>

\* an assignment to self.twist by execute
SetTwist(at, to, tw) ==
  /\ pc = at
  /\ twist' = tw
  /\ pc' = to /\ in_wait' = Left(in_wait)
  /\ sink' = NoPub
  /\ UNCHANGED << od, cb, shutdown, destination, pose, distance_error,
                  angle_error, path, ret, server, calls, hist,
                  handover >>

\* line 114
execute_L114 == SetTwist("L114", "L115", [twist EXCEPT !.linear = distance_error])

\* line 115
execute_L115 == SetTwist("L115", "L118", [twist EXCEPT !.angular = angle_error])

\* lines 118-119
execute_L118 ==
  SetTwist("L118", "L120", [twist EXCEPT !.linear = ClampHi(@, max_linear_velocity)])

\* lines 120-121
execute_L120 ==
  SetTwist("L120", "L122", [twist EXCEPT !.linear = ClampLo(@, max_linear_velocity)])

\* lines 122-123
execute_L122 ==
  SetTwist("L122", "L124", [twist EXCEPT !.angular = ClampHi(@, max_angular_velocity)])

\* lines 124-125
execute_L124 ==
  SetTwist("L124", "L128", [twist EXCEPT !.angular = ClampLo(@, max_angular_velocity)])

\* line 128: if not is_preempt_requested()
execute_L128 ==
  /\ pc = "L128"
  /\ pc' = IF preempt_request THEN "L133" ELSE "L129"
  /\ in_wait' = Left(in_wait)
  /\ sink' = NoPub
  /\ UNCHANGED << od, cb, shutdown, destination, pose, distance_error,
                  angle_error, twist, path, ret, server, calls, hist,
                  handover >>

\* lines 129-130: stamp and publish
execute_L129 ==
  /\ pc = "L129"
  /\ Publish("loop")
  /\ handover' = ExecPublish(handover)
  /\ pc' = "L133" /\ in_wait' = Left(in_wait)
  /\ UNCHANGED << od, cb, shutdown, destination, pose, distance_error,
                  angle_error, twist, path, ret, server, calls, ticks,
                  late_tick, exit_via, succ_zero, shut_running >>

\* line 133: rate.sleep() returns at the next tick boundary
execute_L133 ==
  /\ pc = "L133"
  /\ pc' = "L88" /\ in_wait' = Left(in_wait)
  /\ sink' = NoPub
  /\ UNCHANGED << od, cb, shutdown, destination, pose, distance_error,
                  angle_error, twist, path, ret, server, calls, hist,
                  handover >>

\* line 133: under simulated time rate.sleep() raises ROSInterruptException
\* when the node is shut down
execute_L133_interrupt ==
  /\ pc = "L133" /\ shutdown
  /\ pc' = "raised" /\ exit_via' = "interrupt" /\ in_wait' = Left(in_wait)
  /\ sink' = NoPub
  /\ UNCHANGED << od, cb, shutdown, destination, pose, distance_error,
                  angle_error, twist, path, ret, server, calls,
                  ticks, late_tick, nonzero_pub, succ_zero, shut_running,
                  handover >>

\* line 136: set_succeeded (takes the lock)
execute_L136 ==
  /\ pc = "L136" /\ cb = "idle"
  /\ status' = [status EXCEPT ![current_goal] = Terminal(@, "SUCCEEDED")]
  /\ calls' = [calls EXCEPT !.succeeded = @ + 1]
  /\ exit_via' = "success"
  /\ pc' = "L140" /\ in_wait' = Left(in_wait)
  /\ sink' = NoPub
  /\ UNCHANGED << od, cb, shutdown, destination, pose, distance_error,
                  angle_error, twist, path, ret, new_goal, preempt_request,
                  new_goal_preempt_request, current_goal, next_goal, goal_msg,
                  ticks, late_tick, nonzero_pub, succ_zero, shut_running,
                  handover >>

\* lines 139-140
execute_L140 == SetTwist("L140", "L141", [twist EXCEPT !.linear = 0])

\* line 141
execute_L141 == SetTwist("L141", "L142", [twist EXCEPT !.angular = 0])

\* lines 142-143: publish and break
execute_L142 ==
  /\ pc = "L142"
  /\ Publish("succeeded")
  /\ succ_zero' = IsZero(twist)
  /\ handover' = ExecPublish(handover)
  /\ pc' = "L145" /\ in_wait' = Left(in_wait)
  /\ UNCHANGED << od, cb, shutdown, destination, pose, distance_error,
                  angle_error, twist, path, ret, server, calls, ticks,
                  late_tick, exit_via, shut_running >>

\* a return statement that does not look at is_preempt_requested()
execute_L145_NoPreemptTest ==
  /\ pc = "L145"
  /\ pc' = "L147" /\ UNCHANGED ret
  /\ in_wait' = Left(in_wait)
  /\ sink' = NoPub
  /\ UNCHANGED << od, cb, shutdown, destination, pose, distance_error,
                  angle_error, twist, path, server, calls, hist,
                  handover >>

\* lines 145-146
execute_L145 ==
  /\ pc = "L145"
  /\ IF preempt_request THEN pc' = "post" /\ ret' = "preempted"
                        ELSE pc' = "L147" /\ UNCHANGED ret
  /\ in_wait' = Left(in_wait)
  /\ sink' = NoPub
  /\ UNCHANGED << od, cb, shutdown, destination, pose, distance_error,
                  angle_error, twist, path, server, calls, hist,
                  handover >>

\* a return statement that does not look at rospy.is_shutdown()
execute_L147_NoShutdownTest ==
  /\ pc = "L147"
  /\ ret' = "succeeded"
  /\ pc' = "post" /\ in_wait' = Left(in_wait)
  /\ sink' = NoPub
  /\ UNCHANGED << od, cb, shutdown, destination, pose, distance_error,
                  angle_error, twist, path, server, calls, hist,
                  handover >>

\* lines 147-150
execute_L147 ==
  /\ pc = "L147"
  /\ ret' = IF shutdown THEN "aborted" ELSE "succeeded"
  /\ pc' = "post" /\ in_wait' = Left(in_wait)
  /\ sink' = NoPub
  /\ UNCHANGED << od, cb, shutdown, destination, pose, distance_error,
                  angle_error, twist, path, server, calls, hist,
                  handover >>

\* executeLoop after execute returned: if self.is_active().  The local path
\* is gone; self.distance_error and self.angle_error are written in every
\* tick before they are read, so what execute leaves in them is never
\* observed and is cleared here.
executeLoop_post ==
  /\ pc = "post"
  /\ pc' = IF is_active THEN "post_abort" ELSE "wait"
  /\ path' = <<0, 0>> /\ distance_error' = 0 /\ angle_error' = 0
  /\ in_wait' = Left(in_wait)
  /\ sink' = NoPub
  /\ UNCHANGED << od, cb, shutdown, destination, pose, twist, ret, server,
                  calls, hist, handover >>

\* executeLoop: set_aborted for a goal that execute left active, or after an
\* exception in execute (takes the lock)
set_aborted ==
  /\ pc \in {"post_abort", "raised"} /\ cb = "idle"
  /\ status' = [status EXCEPT ![current_goal] = Terminal(@, "ABORTED")]
  /\ calls' = [calls EXCEPT !.aborted = @ + 1]
  /\ ret' = IF pc = "raised" THEN "raised" ELSE ret
  /\ path' = <<0, 0>> /\ distance_error' = 0 /\ angle_error' = 0
  /\ pc' = "wait" /\ in_wait' = Left(in_wait)
  /\ sink' = NoPub
  /\ UNCHANGED << od, cb, shutdown, destination, pose, twist, new_goal,
                  preempt_request,
                  new_goal_preempt_request, current_goal, next_goal, goal_msg,
                  hist, handover >>

\* rospy.signal_shutdown
Shutdown ==
  /\ ~shutdown
  /\ shutdown' = TRUE
  /\ shut_running' = (pc \in LoopPcs \cup {"L85"})
  /\ sink' = NoPub
  /\ UNCHANGED << od, pc, cb, destination, pose, distance_error, angle_error,
                  twist, path, ret, server, calls, ticks, late_tick,
                  exit_via, nonzero_pub, succ_zero, handover, in_wait >>

\* ------------------------------------------------------------ specification
preempt_cb == preempt_cb_L77 \/ preempt_cb_L78 \/ preempt_cb_L79 \/ preempt_cb_L81

execute ==
  \/ execute_L85 \/ execute_L88 \/ execute_L90 \/ execute_L94 \/ execute_L98
  \/ execute_L100 \/ execute_L114 \/ execute_L115 \/ execute_L118
  \/ execute_L120 \/ execute_L122 \/ execute_L124 \/ execute_L128
  \/ execute_L129 \/ execute_L133 \/ execute_L133_interrupt \/ execute_L136
  \/ execute_L140 \/ execute_L141 \/ execute_L142 \/ execute_L145
  \/ execute_L147

executeLoop == accept_new_goal \/ executeLoop_exit \/ executeLoop_post \/ set_aborted

Callback == GoalPreempts \/ preempt_cb

Next ==
  \/ \E xy \in Goals : GoalArrives(xy)
  \/ \E g \in GoalIds : CancelArrives(g)
  \/ Callback
  \/ \E m \in PoseMsgs : onOdometry(m)
  \/ execute
  \/ executeLoop
  \/ Shutdown

Spec == Init /\ [][Next]_vars

\* ------------------------------------------- sign resolution, lines 105-111
\* head.angle(path) of line 105 and path.angle(head.rotate(angle_error)) of
\* lines 109-110 as the double arithmetic of lines 24-39 (math.sqrt,
\* math.acos, math.cos, math.sin and the division of line 28) gives them, for
\* each orientation and path drawn: << quaternion, path, the angle of line
\* 105 in hundredths of a radian, the angle of line 110 in units of 1e-8
\* radians >>.  An angle of 1 at line 110 is acos(1 - 2^-53): the quotient of
\* line 28 came out one unit in the last place below 1.
DoubleAngles ==
  {
    << <<0, 0, 0, 0>>, <<-2, -2>>, 236, 157079633 >>, << <<0, 0, 0, 0>>, <<-2, -1>>, 268, 92729522 >>,
    << <<0, 0, 0, 0>>, <<-2, 0>>, 314, 0 >>, << <<0, 0, 0, 0>>, <<-2, 1>>, 268, 0 >>,
    << <<0, 0, 0, 0>>, <<-2, 2>>, 236, 1 >>, << <<0, 0, 0, 0>>, <<-1, -2>>, 203, 221429744 >>,
    << <<0, 0, 0, 0>>, <<-1, -1>>, 236, 157079633 >>, << <<0, 0, 0, 0>>, <<-1, 0>>, 314, 0 >>,
    << <<0, 0, 0, 0>>, <<-1, 1>>, 236, 1 >>, << <<0, 0, 0, 0>>, <<-1, 2>>, 203, 0 >>,
    << <<0, 0, 0, 0>>, <<0, -2>>, 157, 314159265 >>, << <<0, 0, 0, 0>>, <<0, -1>>, 157, 314159265 >>,
    << <<0, 0, 0, 0>>, <<0, 1>>, 157, 0 >>, << <<0, 0, 0, 0>>, <<0, 2>>, 157, 0 >>,
    << <<0, 0, 0, 0>>, <<1, -2>>, 111, 221429744 >>, << <<0, 0, 0, 0>>, <<1, -1>>, 79, 157079633 >>,
    << <<0, 0, 0, 0>>, <<1, 0>>, 0, 0 >>, << <<0, 0, 0, 0>>, <<1, 1>>, 79, 1 >>,
    << <<0, 0, 0, 0>>, <<1, 2>>, 111, 0 >>, << <<0, 0, 0, 0>>, <<2, -2>>, 79, 157079633 >>,
    << <<0, 0, 0, 0>>, <<2, -1>>, 46, 92729522 >>, << <<0, 0, 0, 0>>, <<2, 0>>, 0, 0 >>,
    << <<0, 0, 0, 0>>, <<2, 1>>, 46, 0 >>, << <<0, 0, 0, 0>>, <<2, 2>>, 79, 1 >>,
    << <<0, 0, 1, 1>>, <<-2, -2>>, 236, 1 >>, << <<0, 0, 1, 1>>, <<-2, -1>>, 203, 0 >>,
    << <<0, 0, 1, 1>>, <<-2, 0>>, 157, 0 >>, << <<0, 0, 1, 1>>, <<-2, 1>>, 111, 0 >>,
    << <<0, 0, 1, 1>>, <<-2, 2>>, 79, 1 >>, << <<0, 0, 1, 1>>, <<-1, -2>>, 268, 0 >>,
    << <<0, 0, 1, 1>>, <<-1, -1>>, 236, 1 >>, << <<0, 0, 1, 1>>, <<-1, 0>>, 157, 0 >>,
    << <<0, 0, 1, 1>>, <<-1, 1>>, 79, 1 >>, << <<0, 0, 1, 1>>, <<-1, 2>>, 46, 0 >>,
    << <<0, 0, 1, 1>>, <<0, -2>>, 314, 0 >>, << <<0, 0, 1, 1>>, <<0, -1>>, 314, 0 >>,
    << <<0, 0, 1, 1>>, <<0, 1>>, 0, 0 >>, << <<0, 0, 1, 1>>, <<0, 2>>, 0, 0 >>,
    << <<0, 0, 1, 1>>, <<1, -2>>, 268, 92729522 >>, << <<0, 0, 1, 1>>, <<1, -1>>, 236, 157079633 >>,
    << <<0, 0, 1, 1>>, <<1, 0>>, 157, 314159265 >>, << <<0, 0, 1, 1>>, <<1, 1>>, 79, 157079633 >>,
    << <<0, 0, 1, 1>>, <<1, 2>>, 46, 92729522 >>, << <<0, 0, 1, 1>>, <<2, -2>>, 236, 157079633 >>,
    << <<0, 0, 1, 1>>, <<2, -1>>, 203, 221429744 >>, << <<0, 0, 1, 1>>, <<2, 0>>, 157, 314159265 >>,
    << <<0, 0, 1, 1>>, <<2, 1>>, 111, 221429744 >>, << <<0, 0, 1, 1>>, <<2, 2>>, 79, 157079633 >>,
    << <<0, 0, -1, 1>>, <<-2, -2>>, 79, 157079633 >>, << <<0, 0, -1, 1>>, <<-2, -1>>, 111, 221429744 >>,
    << <<0, 0, -1, 1>>, <<-2, 0>>, 157, 314159265 >>, << <<0, 0, -1, 1>>, <<-2, 1>>, 203, 221429744 >>,
    << <<0, 0, -1, 1>>, <<-2, 2>>, 236, 157079633 >>, << <<0, 0, -1, 1>>, <<-1, -2>>, 46, 92729522 >>,
    << <<0, 0, -1, 1>>, <<-1, -1>>, 79, 157079633 >>, << <<0, 0, -1, 1>>, <<-1, 0>>, 157, 314159265 >>,
    << <<0, 0, -1, 1>>, <<-1, 1>>, 236, 157079633 >>, << <<0, 0, -1, 1>>, <<-1, 2>>, 268, 92729522 >>,
    << <<0, 0, -1, 1>>, <<0, -2>>, 0, 0 >>, << <<0, 0, -1, 1>>, <<0, -1>>, 0, 0 >>,
    << <<0, 0, -1, 1>>, <<0, 1>>, 314, 0 >>, << <<0, 0, -1, 1>>, <<0, 2>>, 314, 0 >>,
    << <<0, 0, -1, 1>>, <<1, -2>>, 46, 0 >>, << <<0, 0, -1, 1>>, <<1, -1>>, 79, 1 >>,
    << <<0, 0, -1, 1>>, <<1, 0>>, 157, 0 >>, << <<0, 0, -1, 1>>, <<1, 1>>, 236, 1 >>,
    << <<0, 0, -1, 1>>, <<1, 2>>, 268, 0 >>, << <<0, 0, -1, 1>>, <<2, -2>>, 79, 1 >>,
    << <<0, 0, -1, 1>>, <<2, -1>>, 111, 0 >>, << <<0, 0, -1, 1>>, <<2, 0>>, 157, 0 >>,
    << <<0, 0, -1, 1>>, <<2, 1>>, 203, 0 >>, << <<0, 0, -1, 1>>, <<2, 2>>, 236, 1 >>
  }

\* line 105
HeadAngle(q, v) == (CHOOSE t \in DoubleAngles : t[1] = q /\ t[2] = v)[3]

\* lines 109-110: path.angle(t1)
Realigned(q, v) == (CHOOSE t \in DoubleAngles : t[1] = q /\ t[2] = v)[4]

\* the tick is at line 105 with an orientation and a path drawn
SignInit ==
  /\ \E t \in DoubleAngles : quaternion = t[1] /\ path = t[2]
  /\ pc = "L105" /\ cb = "idle" /\ od = NoMsg
  /\ shutdown = FALSE
  /\ destination = <<0, 0>> /\ position = <<0, 0>>
  /\ distance_error = 0 /\ angle_error = 0
  /\ twist = [linear |-> 0, angular |-> 0]
  /\ ret = "none"
  /\ new_goal = FALSE /\ preempt_request = FALSE
  /\ new_goal_preempt_request = FALSE
  /\ current_goal = 0 /\ next_goal = 0
  /\ status = [g \in GoalIds |-> "NONE"]
  /\ goal_msg = [g \in GoalIds |-> <<0, 0>>]
  /\ sink = NoPub
  /\ calls = NoCall
  /\ ticks = 0 /\ late_tick = FALSE /\ exit_via = "none" /\ nonzero_pub = FALSE
  /\ succ_zero = FALSE /\ shut_running = FALSE
  /\ handover = "none" /\ in_wait = "no"

\* line 105
execute_L105 ==
  /\ pc = "L105"
  /\ angle_error' = HeadAngle(quaternion, path)
  /\ pc' = "L109"
  /\ UNCHANGED << od, cb, shutdown, destination, pose, distance_error, twist,
                  path, ret, server, sink, calls, hist, handover, in_wait >>

\* lines 109-111
execute_L109 ==
  /\ pc = "L109"
  /\ angle_error' = IF Realigned(quaternion, path) # 0 THEN -angle_error
                                                       ELSE angle_error
  /\ pc' = "L114"
  /\ UNCHANGED << od, cb, shutdown, destination, pose, distance_error, twist,
                  path, ret, server, sink, calls, hist, handover, in_wait >>

SignNext == execute_L105 \/ execute_L109

SignSpec == SignInit /\ [][SignNext]_vars


\* ------------------------------------- pose cache, lines 94 and 152-161
\* The odometry subscriber thread runs onOdometry one assignment a step
\* while the execute thread reads the cache: position.vec[0] and
\* position.vec[1] in vector.__sub__ (line 19, called at line 94) and the
\* quaternion at lines 100-101.  The messages drawn differ only in
\* quaternion[2] and in the position, so reading the quaternion in one step
\* loses no outcome.

\* the subscriber thread takes a message and calls onOdometry
onOdometry_call(m) ==
  /\ od.pc = "idle"
  /\ od' = [pc |-> "L154", pos |-> m.pos, q |-> m.q]
  /\ UNCHANGED << pc, cb, shutdown, destination, pose, distance_error,
                  angle_error, twist, path, ret, server, sink, calls, hist,
                  handover, in_wait >>

\* one assignment of onOdometry
OdometryWrites(at, to, qn, pn) ==
  /\ od.pc = at
  /\ quaternion' = qn /\ position' = pn
  /\ od' = IF to = "idle" THEN NoMsg ELSE [od EXCEPT !.pc = to]
  /\ UNCHANGED << pc, cb, shutdown, destination, distance_error,
                  angle_error, twist, path, ret, server, sink, calls, hist,
                  handover, in_wait >>

\* line 154
onOdometry_L154 ==
  OdometryWrites("L154", "L155", [quaternion EXCEPT ![1] = od.q[1]], position)

\* line 155
onOdometry_L155 ==
  OdometryWrites("L155", "L156", [quaternion EXCEPT ![2] = od.q[2]], position)

\* line 156
onOdometry_L156 ==
  OdometryWrites("L156", "L157", [quaternion EXCEPT ![3] = od.q[3]], position)

\* line 157
onOdometry_L157 ==
  OdometryWrites("L157", "L160", [quaternion EXCEPT ![4] = od.q[4]], position)

\* line 160
onOdometry_L160 ==
  OdometryWrites("L160", "L161", quaternion, [position EXCEPT ![1] = od.pos[1]])

\* line 161
onOdometry_L161 ==
  OdometryWrites("L161", "idle", quaternion, [position EXCEPT ![2] = od.pos[2]])

\* line 94, vector.__sub__ (line 19): self.vec[0] - other[0]
execute_L94_x ==
  /\ pc = "L94"
  /\ path' = << destination[1] - position[1], path[2] >>
  /\ pc' = "L94y"
  /\ UNCHANGED << od, cb, shutdown, destination, pose, distance_error,
                  angle_error, twist, ret, server, sink, calls, hist,
                  handover, in_wait >>

\* line 94, vector.__sub__ (line 19): self.vec[1] - other[1]; line 95
execute_L94_y ==
  /\ pc = "L94y"
  /\ path' = << path[1], destination[2] - position[2] >>
  /\ distance_error' = Length(path')
  /\ pc' = "L98"
  /\ UNCHANGED << od, cb, shutdown, destination, pose, angle_error, twist,
                  ret, server, sink, calls, hist, handover, in_wait >>

\* lines 114-133 and 88-91 with no cancellation, new goal or shutdown: the
\* rest of the tick and the top of the next one, which do not read the pose
execute_L114_L91 ==
  /\ pc = "L114"
  /\ pc' = "L94"
  /\ path' = <<0, 0>> /\ distance_error' = 0 /\ angle_error' = 0
  /\ UNCHANGED << od, cb, shutdown, destination, pose, twist, ret, server,
                  sink, calls, hist, handover, in_wait >>

\* a goal is in execution at line 94 of its first tick; the cache holds a
\* pose message
PoseInit ==
  /\ \E m \in PoseMsgs : position = m.pos /\ quaternion = m.q
  /\ \E xy \in Goals :
       /\ destination = xy
       /\ goal_msg = [g \in GoalIds |-> IF g = 1 THEN xy ELSE <<0, 0>>]
  /\ pc = "L94" /\ cb = "idle" /\ od = NoMsg
  /\ shutdown = FALSE
  /\ distance_error = 0 /\ angle_error = 0
  /\ twist = [linear |-> 0, angular |-> 0]
  /\ path = <<0, 0>> /\ ret = "none"
  /\ new_goal = FALSE /\ preempt_request = FALSE
  /\ new_goal_preempt_request = FALSE
  /\ current_goal = 1 /\ next_goal = 1
  /\ status = [g \in GoalIds |-> IF g = 1 THEN "ACTIVE" ELSE "NONE"]
  /\ sink = NoPub
  /\ calls = NoCall
  /\ ticks = 1 /\ late_tick = FALSE /\ exit_via = "none" /\ nonzero_pub = FALSE
  /\ succ_zero = FALSE /\ shut_running = FALSE
  /\ handover = "none" /\ in_wait = "no"

PoseNext ==
  \/ \E m \in PoseMsgs : onOdometry_call(m)
  \/ onOdometry_L154 \/ onOdometry_L155 \/ onOdometry_L156 \/ onOdometry_L157
  \/ onOdometry_L160 \/ onOdometry_L161
  \/ execute_L94_x \/ execute_L94_y \/ execute_L98 \/ execute_L100
  \/ execute_L114_L91

PoseSpec == PoseInit /\ [][PoseNext]_vars


\* ------------------------------------ one execution with the pose at rest
\* positions on the axes through the goal, the tolerance's circle among them
AxisPositions ==
  { << x, 0 >> : x \in -MaxOffset..MaxOffset } \cup
  { << 0, y >> : y \in -MaxOffset..MaxOffset }

\* orientations of the pose messages, and of the cache before the first one
Orientations == { m.q : m \in PoseMsgs } \cup { <<0, 0, 0, 0>> }

\* a goal at the origin has been accepted and execute is called; the cache
\* holds a position on an axis
TickInit ==
  /\ position \in AxisPositions
  /\ quaternion \in Orientations
  /\ pc = "L85" /\ cb = "idle" /\ od = NoMsg
  /\ shutdown = FALSE
  /\ destination = <<0, 0>>
  /\ distance_error = 0 /\ angle_error = 0
  /\ twist = [linear |-> 0, angular |-> 0]
  /\ path = <<0, 0>> /\ ret = "none"
  /\ new_goal = FALSE /\ preempt_request = FALSE
  /\ new_goal_preempt_request = FALSE
  /\ current_goal = 1 /\ next_goal = 1
  /\ status = [g \in GoalIds |-> IF g = 1 THEN "ACTIVE" ELSE "NONE"]
  /\ goal_msg = [g \in GoalIds |-> <<0, 0>>]
  /\ sink = NoPub
  /\ calls = NoCall
  /\ ticks = 0 /\ late_tick = FALSE /\ exit_via = "none" /\ nonzero_pub = FALSE
  /\ succ_zero = FALSE /\ shut_running = FALSE
  /\ handover = "none" /\ in_wait = "no"

\* execute with no cancellation, new goal, pose update or shutdown
TickNext ==
  \/ execute_L85 \/ execute_L88 \/ execute_L90 \/ execute_L94 \/ execute_L98
  \/ execute_L100 \/ execute_L114 \/ execute_L115 \/ execute_L118
  \/ execute_L120 \/ execute_L122 \/ execute_L124 \/ execute_L128
  \/ execute_L129 \/ execute_L133 \/ execute_L136 \/ execute_L140
  \/ execute_L141 \/ execute_L142 \/ execute_L145 \/ execute_L147

TickSpec == TickInit /\ [][TickNext]_vars

\* ------------------------------------------------------------------ claims
InRange(m) ==
  /\ -max_linear_velocity <= m.linear /\ m.linear <= max_linear_velocity
  /\ -max_angular_velocity <= m.angular /\ m.angular <= max_angular_velocity

FinishedPcs == {"L145", "L147", "post", "post_abort", "wait", "dead"}

Finished == pc \in FinishedPcs

\* the displacements within tolerance, and whether the cached position is
\* within tolerance of the destination
Near ==
  { v \in (-max_distance_error..max_distance_error)
           \X (-max_distance_error..max_distance_error) :
      Dot(v, v) <= max_distance_error * max_distance_error }

WithinTolerance ==
  << destination[1] - position[1], destination[2] - position[2] >> \in Near

\* C1: every command that preempt_cb publishes has linear = 0 and
\* angular = 0, whatever the execute loop does to the shared twist meanwhile.
C1_PreemptPublishesZero == sink.by = "preempt_cb" => IsZero(sink)

\* C2: the loop publishes a motion (non-zero) command only when no
\* cancellation of the goal in execution is pending at the publication.
C2_NoMotionWhilePreemptRequested == (sink.by = "loop" /\ sink.pr) => IsZero(sink)

\* C3: set_succeeded and set_preempted are never both called for one goal,
\* and no outcome is marked twice.
C3_OneOutcomePerGoal ==
  /\ ~(calls.succeeded > 0 /\ calls.preempted > 0)
  /\ calls.succeeded <= 1 /\ calls.preempted <= 1 /\ calls.aborted <= 1

\* C4: after an explicit cancellation of the goal in execution (no new goal,
\* no shutdown, the pose outside tolerance) the loop exits instead of
\* continuing to tick: no tick that begins after the goal was marked
\* Preempted runs on to the loop's wait.
C4_CancelledLoopExits ==
  ~(pc = "L133" /\ late_tick /\ ~new_goal /\ ~shutdown /\ ~WithinTolerance)

\* C5: every published command, from the loop or from preempt_cb, is within
\* the velocity limits.
C5_PublishedWithinLimits == sink.by # "none" => InRange(sink)

\* what lines 118-125 are to leave in a field of the twist
Clamped(x, m) == IF x > m THEN m ELSE IF x < -m THEN -m ELSE x

\* C6: a command the loop publishes while no cancellation is pending has
\* linear = clamp(distanceError) and angular = clamp(angleError) for the
\* errors computed in the same tick, which has distanceError > tolerance.
C6_LoopCommandIsClampedError ==
  (sink.by = "loop" /\ ~sink.pr) =>
     /\ distance_error > max_distance_error
     /\ distance_error = Length(path)
     /\ sink.linear = Clamped(distance_error, max_linear_velocity)
     /\ sink.angular = Clamped(angle_error, max_angular_velocity)

C6_Witness ==
  /\ sink.by = "loop" /\ ~sink.pr
  /\ distance_error > max_linear_velocity /\ sink.linear = max_linear_velocity
  /\ angle_error < -max_angular_velocity /\ sink.angular = -max_angular_velocity

\* the execution in progress took the success branch in its first tick
FirstTickSuccess == exit_via = "success" /\ ticks = 1

\* C7: when the position is within tolerance on the first tick the
\* execution emits a zero command, reports Succeeded and exits, and nothing
\* non-zero is published for the goal.
C7_FirstTickSucceeded ==
  FirstTickSuccess =>
     /\ pc \in {"L140", "L141", "L142"} \cup FinishedPcs
     /\ Finished => /\ succ_zero /\ ~nonzero_pub
                    /\ status[current_goal] = "SUCCEEDED"

\* C8: when a new goal arrives while a goal is running, the old goal is
\* reported Preempted and a zero command is emitted before the new goal's
\* execution publishes its first command.
C8_StopBeforeNewGoalMoves == handover # "bad"

\* C9: when a cancellation arrives while the loop is in its wait, preempt_cb
\* publishes a zero command before the wait ends, and the goal is marked
\* Preempted only after that publication.
C9_StopBeforeNextTick ==
  /\ cb \in {"L77", "L78", "L79"} => calls.preempted = 0
  /\ (sink.by = "preempt_cb" /\ in_wait # "no") =>
        in_wait = "waiting" /\ IsZero(sink)

C11_ReturnPriority ==
  /\ [][(pc = "L145" /\ pc' # pc) =>
          /\ preempt_request => (pc' = "post" /\ ret' = "preempted")
          /\ ~preempt_request => (pc' = "L147" /\ ret' = ret)]_vars
  /\ [][(pc = "L147" /\ pc' # pc) =>
          /\ pc' = "post"
          /\ shutdown => ret' = "aborted"
          /\ ~shutdown => ret' = "succeeded"]_vars

C11_Witness ==
  pc = "post" /\ ret = "preempted" /\ shutdown /\ exit_via = "shutdown"
\* C12: once Succeeded has been marked for a goal, no further command is
\* published for that goal, and the goal's outcome never changes afterwards.
C12_NothingAfterSucceeded ==
  /\ [](sink.by # "none" => status[sink.goal] # "SUCCEEDED")
  /\ [][\A g \in GoalIds :
          status[g] = "SUCCEEDED" => status'[g] = "SUCCEEDED"]_vars
\* C13: a step of onOdometry, and any step that changes the cached pose,
\* changes only the cached position and orientation: it publishes nothing,
\* marks no outcome, and leaves the destination, the shared twist, the
\* cancellation state and both threads where they are.
C13_OdometryFrame ==
  [][((\E m \in PoseMsgs : onOdometry(m))
        \/ position' # position \/ quaternion' # quaternion) =>
       /\ sink' = NoPub
       /\ UNCHANGED << destination, twist, distance_error, angle_error, path,
                       ret, server, calls, pc, cb, shutdown >>]_vars

C13_Witness ==
  /\ pc = "L133" /\ preempt_request /\ twist.linear # 0
  /\ position = <<0, 20>> /\ quaternion = <<0, 0, -1, 1>>
  /\ destination = <<0, 20>>
\* the side of the heading the path lies on: > 0 counter-clockwise
Cross(a, b) == a[1] * b[2] - a[2] * b[1]

\* C14: for heading (1,0) the path (0,1) gives angleError = +pi/2 and the
\* path (0,-1) gives -pi/2; in general angleError is positive when the path
\* lies counter-clockwise of the heading (rotating the heading by +angleError
\* aligns it with the path) and negative when it lies clockwise.
C14_SignResolution ==
  pc = "L114" =>
     /\ Cross(HeadVector(quaternion), path) > 0 => angle_error > 0
     /\ Cross(HeadVector(quaternion), path) < 0 => angle_error < 0
     /\ (HeadVector(quaternion) = <<1, 0>> /\ path = <<0, 1>>) => angle_error = 157
     /\ (HeadVector(quaternion) = <<1, 0>> /\ path = <<0, -1>>) => angle_error = -157
\* C15: the position and the orientation a tick computes its command from
\* both come from one pose message: once the tick has read them, one message
\* accounts for the position read (x and y) and for the angle error.
C15_OnePoseMessage ==
  pc = "L114" =>
     \E m \in PoseMsgs :
        /\ Sub(destination, path) = m.pos
        /\ angle_error = AngleError(m.q, path)
\* positions of execute in the branch of line 98 for an unreached goal, and
\* in the branch for a reached one
MotionPcs == {"L100", "L114", "L115", "L118", "L120", "L122", "L124", "L128",
              "L129", "L133"}

SuccessPcs == {"L136", "L140", "L141", "L142"}

\* C16: the loop marks the goal Succeeded only in a tick in which the
\* distance from the position read to the goal is <= tolerance (a distance
\* equal to the tolerance counts as reached), and it publishes a motion
\* command only in a tick in which that distance is > tolerance.
C16_ToleranceBoundary ==
  /\ pc \in MotionPcs \cup SuccessPcs =>
        distance_error = Length(Sub(destination, position))
  /\ pc \in MotionPcs => distance_error > max_distance_error
  /\ pc \in SuccessPcs => distance_error <= max_distance_error
  /\ calls.succeeded > 0 => distance_error <= max_distance_error
  /\ sink.by = "loop" => distance_error > max_distance_error
  /\ sink.by = "succeeded" => distance_error <= max_distance_error

C16_Witness ==
  /\ pc = "L145" /\ sink.by = "succeeded" /\ status[current_goal] = "SUCCEEDED"
  /\ distance_error = max_distance_error /\ position = <<0, -1>>
\* C17: the value execute returns agrees with what it marked on the goal
\* transport: it returns 'succeeded' if and only if it called set_succeeded
\* for the goal.
C17_ReturnAgreesWithOutcome ==
  pc = "post" => (ret = "succeeded" <=> calls.succeeded > 0)
====
